---- MODULE Spec2Model ----
(***************************************************************************)
(* Model of respostas/generate_sql.py: the TSV -> schema.sql / insert.sql  *)
(* generator.                                                              *)
(*                                                                         *)
(* A Python str is a sequence of code points.  An ASCII code point is the  *)
(* one-character string holding it; a non-ASCII code point is the string   *)
(* "U+XXXX" naming it.  Chars("abc") is the str "abc".  Python's None is   *)
(* the value None, which no str equals.                                    *)
(***************************************************************************)
EXTENDS Naturals, Sequences, FiniteSets, TLC

VARIABLES
    pc,                  \* position of the run
    nome,                \* argument of normalizar_nome_coluna / inferir_tipo_coluna
    normalizado,         \* normalizar_nome_coluna(nome)
    renormalizado,       \* normalizar_nome_coluna(normalizado)
    tipo,                \* inferir_tipo_coluna(nome)
    valor,               \* argument of escapar_sql_string
    literal,             \* escapar_sql_string(valor)
    comunidades_campos,  \* field names of Comunidades (header order), or None
    comunidades_dados,   \* records of Comunidades (row order)
    perfis_campos,       \* field names of Perfis (header order), or None
    perfis_dados,        \* records of Perfis (row order)
    schema_sql,          \* gerar_schema(...)
    insert_sql,          \* gerar_inserts(...)
    arquivos,            \* the file system: file name -> content
    antes                \* the file system when the run started

vars == <<pc, nome, normalizado, renormalizado, tipo, valor, literal,
          comunidades_campos, comunidades_dados, perfis_campos, perfis_dados,
          schema_sql, insert_sql, arquivos, antes>>

\* Python's None: a value that is no str (its one element is no code point)
None == <<"None">>

(***************************************************************************)
(* Bounds of the model.                                                    *)
(***************************************************************************)
MaxNomeLen == 3
MaxPartes == 2
MaxValorLen == 2
MaxPad == 1
MaxCampos == 2
MaxRegistros == 2

(***************************************************************************)
(* Code points and the str methods the program uses.                       *)
(***************************************************************************)
Chars(s) == [i \in 1..Len(s) |-> SubSeq(s, i, i)]

Upper == Chars("ABCDEFGHIJKLMNOPQRSTUVWXYZ")
Lower == Chars("abcdefghijklmnopqrstuvwxyz")
Digits == {"0", "1", "2", "3", "4", "5", "6", "7", "8", "9"}
UpperSet == {Upper[i] : i \in 1..Len(Upper)}
LowerSet == {Lower[i] : i \in 1..Len(Lower)}

RECURSIVE Flatten(_)
Flatten(ss) == IF ss = <<>> THEN <<>> ELSE Head(ss) \o Flatten(Tail(ss))

\* unicodedata.normalize('NFKD', c) of one code point: U+00E3 and U+00C3 are
\* a / A with tilde (canonical), U+00BA the masculine ordinal, U+00B2
\* superscript two and U+00A0 the no-break space (compatibility); U+00DF
\* (sharp s) and every ASCII code point have no decomposition.
NFKD(c) ==
    CASE c = "U+00E3" -> <<"a", "U+0303">>
      [] c = "U+00C3" -> <<"A", "U+0303">>
      [] c = "U+00BA" -> <<"o">>
      [] c = "U+00B2" -> <<"2">>
      [] c = "U+00A0" -> <<" ">>
      [] OTHER -> <<c>>

\* unicodedata.combining(c) /= 0: U+0303 is the combining tilde.
combining(c) == c = "U+0303"

\* str.lower() of one code point.
LowerChar(c) ==
    IF c \in UpperSet
    THEN Lower[CHOOSE i \in 1..Len(Upper) : Upper[i] = c]
    ELSE IF c = "U+00C3" THEN "U+00E3" ELSE c

\* str.lower()
StrLower(s) == [i \in 1..Len(s) |-> LowerChar(s[i])]

\* the class [a-zA-Z0-9] of the regular expression
IsAlnum(c) == c \in UpperSet \cup LowerSet \cup Digits

\* re.sub(r'[^a-zA-Z0-9]+', '_', s): every maximal run of code points
\* outside the class becomes one underscore.
RECURSIVE ReSub(_, _)
ReSub(s, inRun) ==
    IF s = <<>> THEN <<>>
    ELSE IF IsAlnum(Head(s)) THEN <<Head(s)>> \o ReSub(Tail(s), FALSE)
    ELSE IF inRun THEN ReSub(Tail(s), TRUE)
    ELSE <<"_">> \o ReSub(Tail(s), TRUE)

\* str.lstrip / str.rstrip / str.strip over a set of code points
RECURSIVE LStrip(_, _)
LStrip(s, cs) ==
    IF s /= <<>> /\ Head(s) \in cs THEN LStrip(Tail(s), cs) ELSE s

RECURSIVE RStrip(_, _)
RStrip(s, cs) ==
    IF s /= <<>> /\ s[Len(s)] \in cs
    THEN RStrip(SubSeq(s, 1, Len(s) - 1), cs) ELSE s

Strip(s, cs) == RStrip(LStrip(s, cs), cs)

\* k in s (substring test)
Contains(s, k) ==
    \E i \in 1..(Len(s) + 1) :
        i + Len(k) - 1 <= Len(s) /\ SubSeq(s, i, i + Len(k) - 1) = k

\* sep.join(parts)
RECURSIVE Join(_, _)
Join(sep, parts) ==
    IF parts = <<>> THEN <<>>
    ELSE IF Len(parts) = 1 THEN parts[1]
    ELSE parts[1] \o sep \o Join(sep, Tail(parts))

\* all sequences over S of length at most n
SeqsUpTo(S, n) == UNION {[1..k -> S] : k \in 0..n}

(***************************************************************************)
(* normalizar_nome_coluna                                                  *)
(***************************************************************************)
\* lines 20-21: NFKD, then drop the combining marks
RemoverAcentos(s) ==
    SelectSeq(Flatten([i \in 1..Len(s) |-> NFKD(s[i])]),
              LAMBDA c : ~combining(c))

\* mutant: the digit test of line 30 is lost, every non-empty name is prefixed
normalizar_sempre_prefixa(n) ==
    LET stripped == Strip(ReSub(RemoverAcentos(n), FALSE), {"_"})
    IN  StrLower(IF stripped /= <<>> THEN Chars("q_") \o stripped ELSE stripped)

\* mutant: the final lower() of line 34 is lost
normalizar_sem_lower(n) ==
    LET stripped == Strip(ReSub(RemoverAcentos(n), FALSE), {"_"})
    IN  IF stripped /= <<>> /\ stripped[1] \in Digits
        THEN Chars("q_") \o stripped ELSE stripped

normalizar_nome_coluna(n) ==
    LET sem_acentos == RemoverAcentos(n)
        substituido == ReSub(sem_acentos, FALSE)
        stripped == Strip(substituido, {"_"})
        prefixado == IF stripped /= <<>> /\ stripped[1] \in Digits
                     THEN Chars("q_") \o stripped
                     ELSE stripped
    IN  StrLower(prefixado)

(***************************************************************************)
(* inferir_tipo_coluna                                                     *)
(***************************************************************************)
\* mutant: the 'questionario' test of line 61 is lost
inferir_sem_questionario(n) ==
    LET nome_lower == StrLower(n)
    IN  IF Contains(nome_lower, Chars("id")) \/ Contains(nome_lower, Chars("numero"))
        THEN "INTEGER"
        ELSE IF \/ Contains(nome_lower, Chars("idade"))
                \/ Contains(nome_lower, Chars("populacao"))
                \/ Contains(nome_lower, Chars("familias"))
        THEN "INTEGER"
        ELSE "TEXT"

inferir_tipo_coluna(n) ==
    LET nome_lower == StrLower(n)
    IN  IF \/ Contains(nome_lower, Chars("id"))
           \/ Contains(nome_lower, Chars("numero"))
           \/ Contains(nome_lower, Chars("questionario"))
        THEN "INTEGER"
        ELSE IF \/ Contains(nome_lower, Chars("idade"))
                \/ Contains(nome_lower, Chars("populacao"))
                \/ Contains(nome_lower, Chars("familias"))
        THEN "INTEGER"
        ELSE "TEXT"

(***************************************************************************)
(* escapar_sql_string                                                      *)
(***************************************************************************)
\* the code points str.strip() removes: space, tab, no-break space
Whitespace == {" ", "\t", "U+00A0"}

\* s.replace(old, new) for a one-code-point old: leftmost, non-overlapping
RECURSIVE StrReplace(_, _, _)
StrReplace(s, old, new) ==
    IF s = <<>> THEN <<>>
    ELSE IF Head(s) = old THEN new \o StrReplace(Tail(s), old, new)
    ELSE <<Head(s)>> \o StrReplace(Tail(s), old, new)

\* mutant: the replace of line 50 is lost
escapar_sem_replace(v) ==
    IF v = None \/ v = <<>> THEN Chars("NULL")
    ELSE LET t == Strip(v, Whitespace)
         IN  IF t = <<>> \/ StrLower(t) = Chars("sem resposta*")
             THEN Chars("NULL")
             ELSE <<"'">> \o t \o <<"'">>

escapar_sql_string(v) ==
    IF v = None \/ v = <<>> THEN Chars("NULL")
    ELSE LET t == Strip(v, Whitespace)
         IN  IF t = <<>> \/ StrLower(t) = Chars("sem resposta*")
             THEN Chars("NULL")
             ELSE <<"'">> \o StrReplace(t, "'", Chars("''")) \o <<"'">>

(***************************************************************************)
(* The inputs the pure functions are applied to.                           *)
(***************************************************************************)
\* raw field names, code point by code point
NomeAlfabeto ==
    {"a", "B", "1", "_", " ", "U+00E3", "U+0303", "U+00B2", "U+00DF"}
Nomes == SeqsUpTo(NomeAlfabeto, MaxNomeLen)

\* raw field names made of pieces of the keywords and of other text
Fragmentos ==
    {Chars("id"), Chars("ID"), Chars("i"), Chars("d"), Chars("numero"),
     Chars("Numero"), Chars("numer"), Chars("questionario"),
     Chars("Questionari"), Chars("o"), Chars("Idade"), Chars("populacao"),
     Chars("Familias"), Chars("familia"), Chars("Nome"), Chars(" "),
     <<"U+00C3">>}
NomesCompostos == {Flatten(ps) : ps \in SeqsUpTo(Fragmentos, MaxPartes)}

\* raw values: None, or a core between two runs of whitespace
ValorAlfabeto == {"a", "'", " "}
Nucleos ==
    SeqsUpTo(ValorAlfabeto, MaxValorLen)
    \cup {Chars("sem resposta*"), Chars("Sem Resposta*"), Chars("SEM RESPOSTA*"),
          Chars("sem resposta"), Chars("sem resposta**"), Chars("sem  resposta*"),
          Chars("O'Brien"), Chars("NULL")}
Valores ==
    {None} \cup {l \o n \o r : l \in SeqsUpTo(Whitespace, MaxPad),
                               n \in Nucleos,
                               r \in SeqsUpTo(Whitespace, MaxPad)}

(***************************************************************************)
(* SpecNorm: normalizar_nome_coluna applied to a name, then to its result. *)
(***************************************************************************)
InitNorm ==
    /\ pc = "nome"
    /\ nome \in Nomes
    /\ normalizado = <<>> /\ renormalizado = <<>>
    /\ tipo = "" /\ valor = <<>> /\ literal = <<>>
    /\ comunidades_campos = <<>> /\ comunidades_dados = <<>>
    /\ perfis_campos = <<>> /\ perfis_dados = <<>>
    /\ schema_sql = <<>> /\ insert_sql = <<>> /\ arquivos = <<>> /\ antes = <<>>

Normalizar ==
    /\ pc = "nome"
    /\ normalizado' = normalizar_nome_coluna(nome)
    /\ pc' = "normalizado"
    /\ UNCHANGED <<nome, renormalizado, tipo, valor, literal,
                   comunidades_campos, comunidades_dados, perfis_campos,
                   perfis_dados, schema_sql, insert_sql, arquivos, antes>>

Renormalizar ==
    /\ pc = "normalizado"
    /\ renormalizado' = normalizar_nome_coluna(normalizado)
    /\ pc' = "renormalizado"
    /\ UNCHANGED <<nome, normalizado, tipo, valor, literal,
                   comunidades_campos, comunidades_dados, perfis_campos,
                   perfis_dados, schema_sql, insert_sql, arquivos, antes>>

NextNorm == Normalizar \/ Renormalizar

SpecNorm == InitNorm /\ [][NextNorm]_vars

(***************************************************************************)
(* SpecTipo: inferir_tipo_coluna applied to a name.                        *)
(***************************************************************************)
InitTipo ==
    /\ pc = "nome_tipo"
    /\ nome \in NomesCompostos
    /\ normalizado = <<>> /\ renormalizado = <<>>
    /\ tipo = "" /\ valor = <<>> /\ literal = <<>>
    /\ comunidades_campos = <<>> /\ comunidades_dados = <<>>
    /\ perfis_campos = <<>> /\ perfis_dados = <<>>
    /\ schema_sql = <<>> /\ insert_sql = <<>> /\ arquivos = <<>> /\ antes = <<>>

InferirTipo ==
    /\ pc = "nome_tipo"
    /\ tipo' = inferir_tipo_coluna(nome)
    /\ pc' = "tipo"
    /\ UNCHANGED <<nome, normalizado, renormalizado, valor, literal,
                   comunidades_campos, comunidades_dados, perfis_campos,
                   perfis_dados, schema_sql, insert_sql, arquivos, antes>>

NextTipo == InferirTipo

SpecTipo == InitTipo /\ [][NextTipo]_vars

(***************************************************************************)
(* SpecEsc: escapar_sql_string applied to a value.                         *)
(***************************************************************************)
InitEsc ==
    /\ pc = "valor"
    /\ valor \in Valores
    /\ nome = <<>> /\ normalizado = <<>> /\ renormalizado = <<>>
    /\ tipo = "" /\ literal = <<>>
    /\ comunidades_campos = <<>> /\ comunidades_dados = <<>>
    /\ perfis_campos = <<>> /\ perfis_dados = <<>>
    /\ schema_sql = <<>> /\ insert_sql = <<>> /\ arquivos = <<>> /\ antes = <<>>

Escapar ==
    /\ pc = "valor"
    /\ literal' = escapar_sql_string(valor)
    /\ pc' = "literal"
    /\ UNCHANGED <<nome, normalizado, renormalizado, tipo, valor,
                   comunidades_campos, comunidades_dados, perfis_campos,
                   perfis_dados, schema_sql, insert_sql, arquivos, antes>>

NextEsc == Escapar

SpecEsc == InitEsc /\ [][NextEsc]_vars

(***************************************************************************)
(* gerar_schema                                                            *)
(***************************************************************************)
NL == <<"\n">>

\* mutant: the primary key test of line 99 joins its two tests with 'or'
ColunaComunidadesOu(campo) ==
    LET nome_norm == normalizar_nome_coluna(campo)
        tipo_col == Chars(inferir_tipo_coluna(campo))
    IN  IF \/ Contains(StrLower(campo), Chars("numero"))
           \/ Contains(StrLower(campo), Chars("questionario"))
        THEN Chars("    ") \o nome_norm \o <<" ">> \o tipo_col \o Chars(" PRIMARY KEY")
        ELSE Chars("    ") \o nome_norm \o <<" ">> \o tipo_col

\* lines 99-102: the column line of one comunidades field
ColunaComunidades(campo) ==
    LET nome_norm == normalizar_nome_coluna(campo)
        tipo_col == Chars(inferir_tipo_coluna(campo))
    IN  IF /\ Contains(StrLower(campo), Chars("numero"))
           /\ Contains(StrLower(campo), Chars("questionario"))
        THEN Chars("    ") \o nome_norm \o <<" ">> \o tipo_col \o Chars(" PRIMARY KEY")
        ELSE Chars("    ") \o nome_norm \o <<" ">> \o tipo_col

\* lines 94-102: the list colunas after the comunidades loop
ColunasComunidades(campos) ==
    [i \in 1..Len(campos) |-> ColunaComunidades(campos[i])]

\* mutant: the synthetic key replaces the first field instead of preceding it
ColunasPerfilSubstitui(i, campo) ==
    IF i = 0
    THEN <<Chars("    perfil_id INTEGER PRIMARY KEY AUTOINCREMENT")>>
    ELSE <<Chars("    ") \o normalizar_nome_coluna(campo) \o <<" ">>
             \o Chars(inferir_tipo_coluna(campo))>>

\* mutant: the foreign key test of line 120 looks for 'id' alone
ColunasPerfilSoId(i, campo) ==
    LET nome_norm == normalizar_nome_coluna(campo)
        tipo_col == Chars(inferir_tipo_coluna(campo))
        coluna == Chars("    ") \o nome_norm \o <<" ">> \o tipo_col
        chave == IF i = 0
                 THEN <<Chars("    perfil_id INTEGER PRIMARY KEY AUTOINCREMENT")>>
                 ELSE <<>>
    IN  IF Contains(StrLower(campo), Chars("id"))
        THEN chave \o <<coluna,
                 Chars("    FOREIGN KEY (") \o nome_norm
                 \o Chars(") REFERENCES comunidades(numero_do_questionario)")>>
        ELSE chave \o <<coluna>>

\* lines 112-124: what one turn of the perfis loop appends to colunas
\* (i counts from 0, as enumerate does)
ColunasPerfil(i, campo) ==
    LET nome_norm == normalizar_nome_coluna(campo)
        tipo_col == Chars(inferir_tipo_coluna(campo))
        coluna == Chars("    ") \o nome_norm \o <<" ">> \o tipo_col
        chave == IF i = 0
                 THEN <<Chars("    perfil_id INTEGER PRIMARY KEY AUTOINCREMENT")>>
                 ELSE <<>>
    IN  IF /\ Contains(StrLower(campo), Chars("id"))
           /\ Contains(StrLower(campo), Chars("questionario"))
        THEN chave \o <<coluna,
                 Chars("    FOREIGN KEY (") \o nome_norm
                 \o Chars(") REFERENCES comunidades(numero_do_questionario)")>>
        ELSE chave \o <<coluna>>

\* lines 111-124: the list colunas after the perfis loop
ColunasPerfis(campos) ==
    Flatten([i \in 1..Len(campos) |-> ColunasPerfil(i - 1, campos[i])])

\* mutant: the tables are created in the other order
gerar_schema_perfis_antes(campos_c, campos_p) ==
    Join(NL,
         <<Chars("-- Schema gerado automaticamente"),
           Chars("-- Encoding: UTF-8\n"),
           Chars("DROP TABLE IF EXISTS perfis;"),
           Chars("DROP TABLE IF EXISTS comunidades;\n"),
           Chars("CREATE TABLE perfis ("),
           Join(Chars(",\n"), ColunasPerfis(campos_p)),
           Chars(");\n"),
           Chars("CREATE TABLE comunidades ("),
           Join(Chars(",\n"), ColunasComunidades(campos_c)),
           Chars(");\n")>>)

\* lines 83-129
gerar_schema(campos_c, campos_p) ==
    Join(NL,
         <<Chars("-- Schema gerado automaticamente"),
           Chars("-- Encoding: UTF-8\n"),
           Chars("DROP TABLE IF EXISTS perfis;"),
           Chars("DROP TABLE IF EXISTS comunidades;\n"),
           Chars("CREATE TABLE comunidades ("),
           Join(Chars(",\n"), ColunasComunidades(campos_c)),
           Chars(");\n"),
           Chars("CREATE TABLE perfis ("),
           Join(Chars(",\n"), ColunasPerfis(campos_p)),
           Chars(");\n")>>)

(***************************************************************************)
(* gerar_inserts                                                           *)
(***************************************************************************)
\* linha.get(c, ''): a record is a function from the keys it has
Get(linha, c) == IF c \in DOMAIN linha THEN linha[c] ELSE <<>>

\* mutant: the values are listed for the keys the record has only
InsertSoPresentes(tabela, linha, campos) ==
    LET colunas_norm == [i \in 1..Len(campos) |-> normalizar_nome_coluna(campos[i])]
        presentes == SelectSeq(campos, LAMBDA c : c \in DOMAIN linha)
        valores == [i \in 1..Len(presentes) |-> escapar_sql_string(linha[presentes[i]])]
    IN  <<Chars("INSERT INTO ") \o tabela \o Chars(" (")
            \o Join(Chars(", "), colunas_norm) \o Chars(")"),
          Chars("VALUES (") \o Join(Chars(", "), valores) \o Chars(");"),
          <<>>>>

\* lines 143-148 and 155-160: what one record appends to sql
Insert(tabela, linha, campos) ==
    LET colunas_norm == [i \in 1..Len(campos) |-> normalizar_nome_coluna(campos[i])]
        valores == [i \in 1..Len(campos) |-> escapar_sql_string(Get(linha, campos[i]))]
    IN  <<Chars("INSERT INTO ") \o tabela \o Chars(" (")
            \o Join(Chars(", "), colunas_norm) \o Chars(")"),
          Chars("VALUES (") \o Join(Chars(", "), valores) \o Chars(");"),
          <<>>>>

\* lines 142-148 and 153-160: what the loop over a table's records appends
Inserts(tabela, dados, campos) ==
    Flatten([i \in 1..Len(dados) |-> Insert(tabela, dados[i], campos)])

\* lines 135-162
gerar_inserts(dados_c, campos_c, dados_p, campos_p) ==
    Join(NL,
         <<Chars("-- Inserts gerados automaticamente"),
           Chars("-- Encoding: UTF-8\n"),
           Chars("-- Inserindo comunidades\n")>>
         \o Inserts(Chars("comunidades"), dados_c, campos_c)
         \o <<Chars("\n-- Inserindo perfis\n")>>
         \o Inserts(Chars("perfis"), dados_p, campos_p))

(***************************************************************************)
(* SpecSchema: gerar_schema applied to two field lists.                    *)
(***************************************************************************)
\* raw field names of the headers
CamposSchema ==
    {Chars("Numero do Questionario"), Chars("ID Questionario"),
     Chars("Nome"), Chars("1 Idade")}

InitSchema ==
    /\ pc = "campos"
    /\ comunidades_campos \in SeqsUpTo(CamposSchema, MaxCampos)
    /\ perfis_campos \in SeqsUpTo(CamposSchema, MaxCampos)
    /\ nome = <<>> /\ normalizado = <<>> /\ renormalizado = <<>>
    /\ tipo = "" /\ valor = <<>> /\ literal = <<>>
    /\ comunidades_dados = <<>> /\ perfis_dados = <<>>
    /\ schema_sql = <<>> /\ insert_sql = <<>> /\ arquivos = <<>> /\ antes = <<>>

GerarSchema ==
    /\ pc = "campos"
    /\ schema_sql' = gerar_schema(comunidades_campos, perfis_campos)
    /\ pc' = "schema_gerado"
    /\ UNCHANGED <<nome, normalizado, renormalizado, tipo, valor, literal,
                   comunidades_campos, comunidades_dados, perfis_campos,
                   perfis_dados, insert_sql, arquivos, antes>>

NextSchema == GerarSchema

SpecSchema == InitSchema /\ [][NextSchema]_vars

(***************************************************************************)
(* SpecInserts: gerar_inserts applied to two datasets.                     *)
(***************************************************************************)
CamposInserts == {Chars("Nome"), Chars("ID Questionario")}

\* records: with every key, lacking a key, holding None and the placeholder
Registros ==
    {[c \in CamposInserts |-> IF c = Chars("Nome") THEN Chars("O'Brien") ELSE Chars("7")],
     [c \in {Chars("Nome")} |-> Chars(" Vila Nova ")],
     [c \in CamposInserts |-> IF c = Chars("Nome") THEN None ELSE Chars("Sem Resposta*")]}

InitInserts ==
    /\ pc = "dados"
    /\ comunidades_campos \in SeqsUpTo(CamposInserts, MaxCampos)
    /\ perfis_campos \in SeqsUpTo(CamposInserts, MaxCampos)
    /\ comunidades_dados \in SeqsUpTo(Registros, MaxRegistros)
    /\ perfis_dados \in SeqsUpTo(Registros, MaxRegistros)
    /\ Len(comunidades_dados) + Len(perfis_dados) <= MaxRegistros
    /\ nome = <<>> /\ normalizado = <<>> /\ renormalizado = <<>>
    /\ tipo = "" /\ valor = <<>> /\ literal = <<>>
    /\ schema_sql = <<>> /\ insert_sql = <<>> /\ arquivos = <<>> /\ antes = <<>>

GerarInserts ==
    /\ pc = "dados"
    /\ insert_sql' = gerar_inserts(comunidades_dados, comunidades_campos,
                                   perfis_dados, perfis_campos)
    /\ pc' = "inserts_gerados"
    /\ UNCHANGED <<nome, normalizado, renormalizado, tipo, valor, literal,
                   comunidades_campos, comunidades_dados, perfis_campos,
                   perfis_dados, schema_sql, arquivos, antes>>

NextInserts == GerarInserts

SpecInserts == InitInserts /\ [][NextInserts]_vars

(***************************************************************************)
(* Spec: main, from the first read to the last write.                      *)
(***************************************************************************)
\* An input file is [estado, linhas]: estado is "ausente" for a file that
\* does not exist, "malformado" for one csv or the UTF-8 decoder rejects, and
\* "ok" for one that parses into linhas, its rows, each row its cells.
\* An output file is [existe, texto].
Entrada(estado, linhas) == [estado |-> estado, linhas |-> linhas]
Saida(existe, texto) == [existe |-> existe, texto |-> texto]

\* the output files a run may find: none, or one left by an earlier run
SaidasAntigas == {Saida(FALSE, <<>>), Saida(TRUE, Chars("-- antigo"))}

\* a field list not assigned yet; reader.fieldnames of a file with no header
\* (None where a list of str is expected)
NaoLido == <<<<"NaoLido">>>>
SemCabecalho == <<None>>

\* a TSV file that parses is its rows, each row its cells
TsvComunidades ==
    {<<>>,
     <<<<Chars("Numero do Questionario"), Chars("Nome")>>,
       <<Chars("7"), Chars("Vila Nova")>>,
       <<>>,
       <<Chars("8")>>>>,
     <<<<Chars("Nome"), Chars("Nome")>>, <<Chars("a"), Chars("O'Brien")>>>>}

TsvPerfis ==
    {<<>>,
     <<<<Chars("ID Questionario"), Chars("1 Idade")>>,
       <<Chars("7"), Chars("Sem Resposta*"), Chars("a")>>>>,
     <<<<>>, <<Chars("7")>>>>}

\* the dict csv.DictReader makes of a row: the cells under the field names,
\* None under the names a short row does not reach, the cells beyond the
\* names under the key None
Registro(campos, linha) ==
    LET ultimo(c) == CHOOSE i \in 1..Len(campos) :
                         campos[i] = c /\ \A j \in (i + 1)..Len(campos) : campos[j] /= c
        chaves == {campos[i] : i \in 1..Len(campos)}
                  \cup (IF Len(linha) > Len(campos) THEN {None} ELSE {})
    IN  [c \in chaves |->
            IF c = None THEN SubSeq(linha, Len(campos) + 1, Len(linha))
            ELSE IF ultimo(c) <= Len(linha) THEN linha[ultimo(c)]
            ELSE None]

\* lines 75-77: list(reader), reader.fieldnames of a file that parses; an
\* empty file has no header (fieldnames is None), empty rows are skipped
ler_tsv(linhas) ==
    IF linhas = <<>> THEN <<<<>>, SemCabecalho>>
    ELSE LET campos == Head(linhas)
             cheias == SelectSeq(Tail(linhas), LAMBDA l : l /= <<>>)
         IN  <<[k \in 1..Len(cheias) |-> Registro(campos, cheias[k])], campos>>

Init ==
    /\ pc = "inicio"
    /\ \E c \in {Entrada("ausente", <<>>), Entrada("malformado", <<>>)}
                 \cup {Entrada("ok", l) : l \in TsvComunidades} :
       \E p \in {Entrada("ausente", <<>>), Entrada("malformado", <<>>)}
                 \cup {Entrada("ok", l) : l \in TsvPerfis} :
       \E s \in SaidasAntigas : \E i \in SaidasAntigas :
           arquivos = [f \in {"Comunidades.tsv", "Perfis.tsv", "schema.sql", "insert.sql"} |->
                          CASE f = "Comunidades.tsv" -> c
                            [] f = "Perfis.tsv" -> p
                            [] f = "schema.sql" -> s
                            [] f = "insert.sql" -> i]
    /\ antes = arquivos
    /\ comunidades_campos = NaoLido /\ comunidades_dados = <<>>
    /\ perfis_campos = NaoLido /\ perfis_dados = <<>>
    /\ schema_sql = <<>> /\ insert_sql = <<>>
    /\ nome = <<>> /\ normalizado = <<>> /\ renormalizado = <<>>
    /\ tipo = "" /\ valor = <<>> /\ literal = <<>>

\* line 168
LerComunidades ==
    /\ pc = "inicio"
    /\ IF arquivos["Comunidades.tsv"].estado /= "ok"
       THEN /\ pc' = "falhou_ler_comunidades"
            /\ UNCHANGED <<comunidades_dados, comunidades_campos>>
       ELSE /\ comunidades_dados' = ler_tsv(arquivos["Comunidades.tsv"].linhas)[1]
            /\ comunidades_campos' = ler_tsv(arquivos["Comunidades.tsv"].linhas)[2]
            /\ pc' = "lido_comunidades"
    /\ UNCHANGED <<nome, normalizado, renormalizado, tipo, valor, literal,
                   perfis_campos, perfis_dados, schema_sql, insert_sql,
                   arquivos, antes>>

\* line 169
LerPerfis ==
    /\ pc = "lido_comunidades"
    /\ IF arquivos["Perfis.tsv"].estado /= "ok"
       THEN /\ pc' = "falhou_ler_perfis"
            /\ UNCHANGED <<perfis_dados, perfis_campos>>
       ELSE /\ perfis_dados' = ler_tsv(arquivos["Perfis.tsv"].linhas)[1]
            /\ perfis_campos' = ler_tsv(arquivos["Perfis.tsv"].linhas)[2]
            /\ pc' = "lido_perfis"
    /\ UNCHANGED <<nome, normalizado, renormalizado, tipo, valor, literal,
                   comunidades_campos, comunidades_dados, schema_sql, insert_sql,
                   arquivos, antes>>

\* lines 171-172: len(None) raises TypeError
Relatar ==
    /\ pc = "lido_perfis"
    /\ pc' = IF comunidades_campos = SemCabecalho \/ perfis_campos = SemCabecalho
             THEN "falhou_relatar" ELSE "relatado"
    /\ UNCHANGED <<nome, normalizado, renormalizado, tipo, valor, literal,
                   comunidades_campos, comunidades_dados, perfis_campos,
                   perfis_dados, schema_sql, insert_sql, arquivos, antes>>

\* open(arquivo, 'w') and f.write(text): open fails and leaves the file as
\* it was; or open truncates the file and the write fails, leaving a part of
\* the text; or the whole text is written
Escrever(arquivo, text, falhou, escrito) ==
    \/ /\ pc' = falhou
       /\ UNCHANGED arquivos
    \/ /\ pc' = falhou
       /\ \E k \in {0, Len(text) \div 2} :
              arquivos' = [arquivos EXCEPT ![arquivo] = Saida(TRUE, SubSeq(text, 1, k))]
    \/ /\ pc' = escrito
       /\ arquivos' = [arquivos EXCEPT ![arquivo] = Saida(TRUE, text)]

\* lines 176-179
EscreverSchema ==
    /\ pc = "relatado"
    /\ schema_sql' = gerar_schema(comunidades_campos, perfis_campos)
    /\ Escrever("schema.sql", schema_sql', "falhou_escrever_schema", "schema_escrito")
    /\ UNCHANGED <<nome, normalizado, renormalizado, tipo, valor, literal,
                   comunidades_campos, comunidades_dados, perfis_campos,
                   perfis_dados, insert_sql, antes>>

\* mutant: a failed write of insert.sql removes both output files
EscreverInsertLimpa ==
    /\ pc = "schema_escrito"
    /\ insert_sql' = gerar_inserts(comunidades_dados, comunidades_campos,
                                   perfis_dados, perfis_campos)
    /\ \/ /\ pc' = "falhou_escrever_insert"
          /\ arquivos' = [arquivos EXCEPT !["schema.sql"] = Saida(FALSE, <<>>),
                                          !["insert.sql"] = Saida(FALSE, <<>>)]
       \/ /\ pc' = "concluido"
          /\ arquivos' = [arquivos EXCEPT !["insert.sql"] = Saida(TRUE, insert_sql')]
    /\ UNCHANGED <<nome, normalizado, renormalizado, tipo, valor, literal,
                   comunidades_campos, comunidades_dados, perfis_campos,
                   perfis_dados, schema_sql, antes>>

\* lines 185-189
EscreverInsert ==
    /\ pc = "schema_escrito"
    /\ insert_sql' = gerar_inserts(comunidades_dados, comunidades_campos,
                                   perfis_dados, perfis_campos)
    /\ Escrever("insert.sql", insert_sql', "falhou_escrever_insert", "concluido")
    /\ UNCHANGED <<nome, normalizado, renormalizado, tipo, valor, literal,
                   comunidades_campos, comunidades_dados, perfis_campos,
                   perfis_dados, schema_sql, antes>>

Next ==
    \/ LerComunidades
    \/ LerPerfis
    \/ Relatar
    \/ EscreverSchema
    \/ EscreverInsert

Spec == Init /\ [][Next]_vars

(***************************************************************************)
(* Properties of the pure functions.                                       *)
(***************************************************************************)

\* C1: normalizar_nome_coluna(n) holds only code points of [a-z0-9_], never
\* starts with a digit, and is empty only when n, once its accents are
\* removed, holds no ASCII letter or digit.
NormalizadoBemFormado ==
    pc \in {"normalizado", "renormalizado"} =>
        /\ \A i \in 1..Len(normalizado) :
               normalizado[i] \in LowerSet \cup Digits \cup {"_"}
        /\ normalizado /= <<>> => normalizado[1] \notin Digits
        /\ normalizado = <<>> =>
               \A i \in 1..Len(RemoverAcentos(nome)) :
                   ~IsAlnum(RemoverAcentos(nome)[i])

\* a name starting with superscript two, then an accented letter: q_ prefix
NormalizadoDigitoVisto ==
    /\ pc = "normalizado"
    /\ nome = <<"U+00B2", "U+00E3", "B">>
    /\ normalizado = Chars("q_2ab")

\* C2: normalizar_nome_coluna applied to its own output returns that output.
NormalizarIdempotente ==
    pc = "renormalizado" => renormalizado = normalizado

\* a name starting with a digit was prefixed, and normalized again
RenormalizadoPrefixoVisto ==
    /\ pc = "renormalizado"
    /\ nome = <<"1", " ", "B">>
    /\ normalizado = Chars("q_1_b")
    /\ renormalizado = Chars("q_1_b")

\* every code point of s is whitespace
EhBranco(s) == \A i \in 1..Len(s) : s[i] \in Whitespace

\* s from its first to its last code point that is no whitespace
Aparado(s) ==
    IF EhBranco(s) THEN <<>>
    ELSE LET a == CHOOSE i \in 1..Len(s) :
                      s[i] \notin Whitespace /\ \A j \in 1..(i - 1) : s[j] \in Whitespace
             z == CHOOSE i \in 1..Len(s) :
                      s[i] \notin Whitespace /\ \A j \in (i + 1)..Len(s) : s[j] \in Whitespace
         IN  SubSeq(s, a, z)

\* a and b are equal up to the case of their ASCII letters
IgualSemCaixa(a, b) ==
    /\ Len(a) = Len(b)
    /\ \A i \in 1..Len(a) :
           \/ a[i] = b[i]
           \/ \E j \in 1..Len(Upper) : {a[i], b[i]} = {Upper[j], Lower[j]}

\* s with each single quote written twice
Dobrado(s) ==
    Flatten([i \in 1..Len(s) |-> IF s[i] = "'" THEN <<"'", "'">> ELSE <<s[i]>>])

\* every maximal run of single quotes in s has even length
SemAspaSolta(s) ==
    \A a \in 1..Len(s) : \A z \in a..Len(s) :
        ( /\ \A i \in a..z : s[i] = "'"
          /\ (a = 1 \/ s[a - 1] /= "'")
          /\ (z = Len(s) \/ s[z + 1] /= "'") ) => (z - a + 1) % 2 = 0

\* C3: escapar_sql_string(v) is NULL when v is None, empty, all whitespace or,
\* trimmed, "sem resposta*" in any case; otherwise it is the trimmed value with
\* each single quote doubled, between two single quotes, so that no single
\* quote inside stands alone.
EscaparContrato ==
    pc = "literal" =>
        IF \/ valor = None
           \/ EhBranco(valor)
           \/ IgualSemCaixa(Aparado(valor), Chars("sem resposta*"))
        THEN literal = Chars("NULL")
        ELSE /\ literal = <<"'">> \o Dobrado(Aparado(valor)) \o <<"'">>
             /\ SemAspaSolta(SubSeq(literal, 2, Len(literal) - 1))

\* a padded value with a single quote inside was escaped
EscaparAspaVista ==
    /\ pc = "literal"
    /\ valor = <<" ">> \o Chars("O'Brien") \o <<"\t">>
    /\ literal = Chars("'O''Brien'")

PalavrasChave ==
    {Chars("id"), Chars("numero"), Chars("questionario"),
     Chars("idade"), Chars("populacao"), Chars("familias")}

\* C4: inferir_tipo_coluna(n) is INTEGER exactly when the lowercased n holds
\* one of the six keywords, whichever it is, and TEXT otherwise.
InferirContrato ==
    pc = "tipo" =>
        /\ tipo \in {"INTEGER", "TEXT"}
        /\ tipo = "INTEGER" <=>
               \E k \in PalavrasChave : Contains(StrLower(nome), k)

\* a name that is INTEGER by a keyword of the second test only
InferirSegundoTesteVisto ==
    /\ pc = "tipo"
    /\ nome = Chars("Familias ")
    /\ tipo = "INTEGER"

(***************************************************************************)
(* Reading the generated text back.                                        *)
(***************************************************************************)
\* the places where k occurs in text
Posicoes(text, k) ==
    {i \in 1..Len(text) :
        i + Len(k) - 1 <= Len(text) /\ SubSeq(text, i, i + Len(k) - 1) = k}

\* text cut at every code point c
RECURSIVE Split(_, _)
Split(text, c) ==
    IF \A i \in 1..Len(text) : text[i] /= c THEN <<text>>
    ELSE LET i == CHOOSE i \in 1..Len(text) :
                      text[i] = c /\ \A j \in 1..(i - 1) : text[j] /= c
         IN  <<SubSeq(text, 1, i - 1)>> \o Split(SubSeq(text, i + 1, Len(text)), c)

StartsWith(s, p) == Len(s) >= Len(p) /\ SubSeq(s, 1, Len(p)) = p

\* the indices of the lines that satisfy P, ascending
Indices(linhas, P(_)) ==
    SelectSeq([i \in 1..Len(linhas) |-> i], LAMBDA i : P(linhas[i]))

\* a line without the comma that ends it, if one does
SemVirgula(l) ==
    IF l /= <<>> /\ l[Len(l)] = "," THEN SubSeq(l, 1, Len(l) - 1) ELSE l

\* the column lines of a table: the non-empty lines after the line that
\* opens the CREATE TABLE, up to the line that closes it, commas dropped
ColunasDaTabela(text, tabela) ==
    LET linhas == Split(text, "\n")
        abre == CHOOSE i \in 1..Len(linhas) :
                    linhas[i] = Chars("CREATE TABLE ") \o tabela \o Chars(" (")
        fecha == CHOOSE i \in (abre + 1)..Len(linhas) :
                     /\ linhas[i] = Chars(");")
                     /\ \A j \in (abre + 1)..(i - 1) : linhas[j] /= Chars(");")
        bloco == SubSeq(linhas, abre + 1, fecha - 1)
        cheias == SelectSeq(bloco, LAMBDA l : l /= <<>>)
    IN  [i \in 1..Len(cheias) |-> SemVirgula(cheias[i])]

ChavePerfil == Chars("    perfil_id INTEGER PRIMARY KEY AUTOINCREMENT")

EhChaveEstrangeira(l) == StartsWith(l, Chars("    FOREIGN KEY ("))

\* the column line of a field, without key
LinhaDoCampo(campo) ==
    Chars("    ") \o normalizar_nome_coluna(campo) \o <<" ">>
    \o Chars(inferir_tipo_coluna(campo))

(***************************************************************************)
(* Properties of gerar_schema.                                             *)
(***************************************************************************)

\* C5: for non-empty field lists the schema text holds DROP TABLE IF EXISTS
\* perfis, DROP TABLE IF EXISTS comunidades, CREATE TABLE comunidades and
\* CREATE TABLE perfis once each, in this order.
SchemaOrdem ==
    (pc = "schema_gerado" /\ comunidades_campos /= <<>> /\ perfis_campos /= <<>>) =>
        LET dp == Posicoes(schema_sql, Chars("DROP TABLE IF EXISTS perfis"))
            dc == Posicoes(schema_sql, Chars("DROP TABLE IF EXISTS comunidades"))
            cc == Posicoes(schema_sql, Chars("CREATE TABLE comunidades"))
            cp == Posicoes(schema_sql, Chars("CREATE TABLE perfis"))
        IN  /\ Cardinality(dp) = 1 /\ Cardinality(dc) = 1
            /\ Cardinality(cc) = 1 /\ Cardinality(cp) = 1
            /\ \A a \in dp : \A b \in dc : \A c \in cc : \A d \in cp :
                   a < b /\ b < c /\ c < d

\* the schema of the two-field headers of the documentation's example
SchemaExemploVisto ==
    /\ pc = "schema_gerado"
    /\ comunidades_campos = <<Chars("Numero do Questionario"), Chars("Nome")>>
    /\ perfis_campos = <<Chars("ID Questionario"), Chars("1 Idade")>>
    /\ schema_sql =
         Chars("-- Schema gerado automaticamente\n-- Encoding: UTF-8\n\n")
         \o Chars("DROP TABLE IF EXISTS perfis;\nDROP TABLE IF EXISTS comunidades;\n\n")
         \o Chars("CREATE TABLE comunidades (\n")
         \o Chars("    numero_do_questionario INTEGER PRIMARY KEY,\n    nome TEXT\n);\n\n")
         \o Chars("CREATE TABLE perfis (\n")
         \o Chars("    perfil_id INTEGER PRIMARY KEY AUTOINCREMENT,\n")
         \o Chars("    id_questionario INTEGER,\n")
         \o Chars("    FOREIGN KEY (id_questionario) REFERENCES comunidades(numero_do_questionario),\n")
         \o Chars("    q_1_idade INTEGER\n);\n")

\* C6: the comunidades table has one column line per field, in field order,
\* named by normalizar_nome_coluna and typed by inferir_tipo_coluna, with
\* PRIMARY KEY exactly on the fields whose lowercased name holds numero and
\* questionario, however many they are.
ComunidadesColunas ==
    pc = "schema_gerado" =>
        LET colunas == ColunasDaTabela(schema_sql, Chars("comunidades"))
        IN  /\ Len(colunas) = Len(comunidades_campos)
            /\ \A i \in 1..Len(comunidades_campos) :
                   LET campo == comunidades_campos[i]
                       chave == /\ Contains(StrLower(campo), Chars("numero"))
                                /\ Contains(StrLower(campo), Chars("questionario"))
                   IN  colunas[i] =
                         LinhaDoCampo(campo)
                         \o (IF chave THEN Chars(" PRIMARY KEY") ELSE <<>>)

\* two fields qualify, and both column lines carry PRIMARY KEY
DuasChavesPrimariasVistas ==
    /\ pc = "schema_gerado"
    /\ comunidades_campos =
         <<Chars("Numero do Questionario"), Chars("Numero do Questionario")>>
    /\ ColunasDaTabela(schema_sql, Chars("comunidades")) =
         <<Chars("    numero_do_questionario INTEGER PRIMARY KEY"),
           Chars("    numero_do_questionario INTEGER PRIMARY KEY")>>

\* the column lines of perfis that are no FOREIGN KEY clause, from the second
ColunasDosCamposPerfis(colunas) ==
    LET resto == SubSeq(colunas, 2, Len(colunas))
    IN  SelectSeq(resto, LAMBDA l : ~EhChaveEstrangeira(l))

\* the first column line of perfis is the synthetic key, and the lines of
\* the fields, the first field included, follow it in field order
PerfilIdPrimeiro ==
    LET colunas == ColunasDaTabela(schema_sql, Chars("perfis"))
    IN  /\ colunas /= <<>>
        /\ colunas[1] = ChavePerfil
        /\ ColunasDosCamposPerfis(colunas) =
              [i \in 1..Len(perfis_campos) |-> LinhaDoCampo(perfis_campos[i])]

\* C7 as claimed: for every perfis field list the perfis table starts with
\* the synthetic perfil_id key, and every field follows as its own column.
PerfilIdSempre ==
    pc = "schema_gerado" => PerfilIdPrimeiro

\* C7, amended: for every non-empty perfis field list the perfis table
\* starts with the synthetic perfil_id key, and every field, the first one
\* included, follows as its own column line in field order; for the empty
\* field list the table has no column line at all.
PerfilIdSeHaCampos ==
    pc = "schema_gerado" =>
        IF perfis_campos /= <<>> THEN PerfilIdPrimeiro
        ELSE ColunasDaTabela(schema_sql, Chars("perfis")) = <<>>

\* the first field is emitted after the synthetic key
PerfilIdEPrimeiroCampoVistos ==
    /\ pc = "schema_gerado"
    /\ perfis_campos = <<Chars("Nome"), Chars("1 Idade")>>
    /\ ColunasDaTabela(schema_sql, Chars("perfis")) =
         <<ChavePerfil, Chars("    nome TEXT"), Chars("    q_1_idade INTEGER")>>

\* C8: a perfis field has a FOREIGN KEY clause, right after its own column
\* line, exactly when its lowercased name holds id and questionario; the
\* clause names the field's normalized name and references
\* comunidades(numero_do_questionario), whatever the comunidades fields are.
ChaveEstrangeira ==
    pc = "schema_gerado" =>
        LET colunas == ColunasDaTabela(schema_sql, Chars("perfis"))
            \* the places of the fields' own column lines
            lugar == SelectSeq([i \in 1..Len(colunas) |-> i],
                               LAMBDA i : i >= 2 /\ ~EhChaveEstrangeira(colunas[i]))
            clausulas == {i \in 1..Len(colunas) : EhChaveEstrangeira(colunas[i])}
        IN  /\ Len(lugar) = Len(perfis_campos)
            /\ \A k \in 1..Len(perfis_campos) :
                   LET campo == perfis_campos[k]
                       estrangeira == /\ Contains(StrLower(campo), Chars("id"))
                                      /\ Contains(StrLower(campo), Chars("questionario"))
                   IN  /\ colunas[lugar[k]] = LinhaDoCampo(campo)
                       /\ estrangeira <=> (lugar[k] + 1) \in clausulas
                       /\ estrangeira =>
                              colunas[lugar[k] + 1] =
                                Chars("    FOREIGN KEY (")
                                \o normalizar_nome_coluna(campo)
                                \o Chars(") REFERENCES comunidades(numero_do_questionario)")
            /\ \A i \in clausulas :
                   \E k \in 1..Len(lugar) : i = lugar[k] + 1

\* a foreign key clause while no comunidades column is numero_do_questionario
ChaveEstrangeiraSemAlvoVista ==
    /\ pc = "schema_gerado"
    /\ comunidades_campos = <<Chars("Nome")>>
    /\ perfis_campos = <<Chars("1 Idade"), Chars("ID Questionario")>>
    /\ ColunasDaTabela(schema_sql, Chars("perfis")) =
         <<ChavePerfil,
           Chars("    q_1_idade INTEGER"),
           Chars("    id_questionario INTEGER"),
           Chars("    FOREIGN KEY (id_questionario) REFERENCES comunidades(numero_do_questionario)")>>

(***************************************************************************)
(* Properties of gerar_inserts.                                            *)
(***************************************************************************)
\* the INSERT line and the VALUES line the contract gives a record
LinhaInsert(tabela, campos) ==
    Chars("INSERT INTO ") \o tabela \o Chars(" (")
    \o Join(Chars(", "), [i \in 1..Len(campos) |-> normalizar_nome_coluna(campos[i])])
    \o Chars(")")

LinhaValues(linha, campos) ==
    Chars("VALUES (")
    \o Join(Chars(", "),
            [i \in 1..Len(campos) |->
                IF campos[i] \in DOMAIN linha
                THEN escapar_sql_string(linha[campos[i]])
                ELSE Chars("NULL")])
    \o Chars(");")

\* C9: the insert text holds one INSERT statement per record, in record
\* order, those of comunidades before those of perfis; each lists the
\* normalized names of its table's fields in field order and, for each
\* field, escapar_sql_string of the record's value under the raw name, NULL
\* when the record has no such key.
InsertsContrato ==
    pc = "inserts_gerados" =>
        LET linhas == Split(insert_sql, "\n")
            lugar == Indices(linhas, LAMBDA l : StartsWith(l, Chars("INSERT INTO ")))
            nc == Len(comunidades_dados)
        IN  /\ Len(lugar) = nc + Len(perfis_dados)
            /\ \A k \in 1..Len(lugar) :
                   /\ lugar[k] < Len(linhas)
                   /\ IF k <= nc
                      THEN /\ linhas[lugar[k]] =
                                LinhaInsert(Chars("comunidades"), comunidades_campos)
                           /\ linhas[lugar[k] + 1] =
                                LinhaValues(comunidades_dados[k], comunidades_campos)
                      ELSE /\ linhas[lugar[k]] =
                                LinhaInsert(Chars("perfis"), perfis_campos)
                           /\ linhas[lugar[k] + 1] =
                                LinhaValues(perfis_dados[k - nc], perfis_campos)
            /\ Cardinality({i \in 1..Len(linhas) : StartsWith(linhas[i], Chars("VALUES ("))})
                 = Len(lugar)

\* two comunidades records, the first lacking a field, were written in order
InsertsCampoAusenteVisto ==
    /\ pc = "inserts_gerados"
    /\ comunidades_campos = <<Chars("ID Questionario"), Chars("Nome")>>
    /\ comunidades_dados =
         <<[c \in {Chars("Nome")} |-> Chars(" Vila Nova ")],
           [c \in CamposInserts |->
               IF c = Chars("Nome") THEN Chars("O'Brien") ELSE Chars("7")]>>
    /\ perfis_campos = <<>>
    /\ insert_sql =
         Chars("-- Inserts gerados automaticamente\n-- Encoding: UTF-8\n\n")
         \o Chars("-- Inserindo comunidades\n\n")
         \o Chars("INSERT INTO comunidades (id_questionario, nome)\n")
         \o Chars("VALUES (NULL, 'Vila Nova');\n\n")
         \o Chars("INSERT INTO comunidades (id_questionario, nome)\n")
         \o Chars("VALUES ('7', 'O''Brien');\n\n")
         \o Chars("\n-- Inserindo perfis\n")

(***************************************************************************)
(* Properties of main.                                                     *)
(***************************************************************************)
Intacto(arquivo) == arquivos[arquivo] = antes[arquivo]

\* the file holds the whole of text
Completo(arquivo, text) == arquivos[arquivo] = Saida(TRUE, text)

\* C10: main reads Comunidades.tsv, reads Perfis.tsv, writes schema.sql and
\* writes insert.sql in this order; a step that fails ends the run, nothing
\* later is done and nothing written is undone: after a failed read both
\* output files are as they were, and after a failed write of insert.sql
\* schema.sql holds the whole schema.
MainOrdemEFalhas ==
    LET schema == gerar_schema(comunidades_campos, perfis_campos)
        lidos == comunidades_campos /= NaoLido /\ perfis_campos /= NaoLido
    IN  /\ perfis_campos /= NaoLido => comunidades_campos /= NaoLido
        /\ ~Intacto("schema.sql") => lidos
        /\ ~Intacto("insert.sql") => lidos /\ Completo("schema.sql", schema)
        /\ pc = "falhou_ler_comunidades" =>
               /\ perfis_campos = NaoLido
               /\ Intacto("schema.sql") /\ Intacto("insert.sql")
        /\ pc \in {"falhou_ler_perfis", "falhou_relatar"} =>
               Intacto("schema.sql") /\ Intacto("insert.sql")
        /\ pc = "falhou_escrever_schema" => Intacto("insert.sql")
        /\ pc = "falhou_escrever_insert" => Completo("schema.sql", schema)
        /\ pc = "concluido" =>
               /\ Completo("schema.sql", schema)
               /\ Completo("insert.sql",
                           gerar_inserts(comunidades_dados, comunidades_campos,
                                         perfis_dados, perfis_campos))

\* the write of insert.sql failed half way over an older insert.sql
FalhaNoInsertVista ==
    /\ pc = "falhou_escrever_insert"
    /\ antes["insert.sql"].existe
    /\ ~Intacto("insert.sql")
    /\ arquivos["insert.sql"].texto /= <<>>
    /\ Completo("schema.sql", gerar_schema(comunidades_campos, perfis_campos))
    /\ Len(comunidades_dados) = 2

====
